---- MODULE Spec2Model ----
(***************************************************************************)
(* Model of src/domains/test/environment_test/source_py.py: the User value *)
(* type, InMemoryUserRepository (store, next-identifier counter, capacity, *)
(* one lock), UserService (create_user_async, get_user_statistics) and the *)
(* batch of main, database_transaction; and of src/domains/core/foobar.py  *)
(* (Foo, Bar, Baz).                                                        *)
(*                                                                         *)
(* User objects live in a heap (heap[o]); the store maps identifiers to    *)
(* object references, as the Python dict holds references.  An Optional    *)
(* age is a sequence: <<>> is None, <<n>> is the integer n.  An email is a *)
(* sequence of one-character strings.                                      *)
(*                                                                         *)
(* Ten specifications share the variables:                                 *)
(*   Spec            one client, every repository call one step;           *)
(*   SpecThreads     threads, the lock, and save step by step under it;    *)
(*   SpecLock        the same steps over fewer arguments, fairly scheduled;*)
(*   SpecLoop        create_user_async requests as coroutines of one       *)
(*                   event loop;                                           *)
(*   SpecSvcThreads  create_user_async requests on threads of their own;   *)
(*   SpecStats       one client, users of ages around 18, the statistics   *)
(*                   and the list find_all returns;                        *)
(*   SpecUser        constructions of User over a range of arguments;      *)
(*   SpecBatch       the batch of main: each request once, gathered, with  *)
(*                   the event loop's fairness;                            *)
(*   SpecFoo         objects of Foo, Bar and Baz and calls of do_something;*)
(*   SpecTxn         uses of database_transaction, each database call      *)
(*                   succeeding or raising.                                *)
(***************************************************************************)
EXTENDS Integers, Sequences, FiniteSets, TLC

\* ------------------------------------------------------------------ bounds
\* Largest identifier the counter may issue (the counter is unbounded in
\* the code; calls of save are not started once it has passed MaxId).
MaxId == 3
\* Largest capacity max_users a repository is constructed with.
MaxCapacity == 2
\* Most calls of do_something made on one object (history counter).
MaxCalls == 2

Threads == {"t1", "t2"}
\* The one client of the sequential specification.
Clients == {"t1"}
Objs == {"u1", "u2"}
\* The create_user_async requests in flight at once.
Tasks == {"r1", "r2"}
\* The Foo, Bar and Baz objects client code may make.
Insts == {"i1", "i2"}
NoRunning == "none"
NoThread == "none"
NoObj == "null"

\* ------------------------------------------------------------ sample data
EmailOk == <<"a", "@", "b", ".", "c", "o">>
EmailShort == <<"a", "@", "b", ".", "c">>
EmailNoAt == <<"a", "b", ".", "c", "o", "m">>
EmailNoDot == <<"a", "@", "b", "c", "o", "m">>
EmailUpper == <<"A", "@", "B", ".", "C", "O">>
EmailOther == <<"c", "@", "d", ".", "i", "o">>
\* What client code constructs and assigns in the repository specifications.
Emails == {EmailOk, EmailShort, EmailNoAt, EmailNoDot}
Ages == {<<>>, <<-1>>}
\* The arguments of create_user_async in the service specifications.
SvcEmails == {EmailOk, EmailUpper, EmailOther, EmailShort}
SvcAges == {<<>>, <<-1>>, <<18>>}
UserIds == 0..MaxId
Statuses == {"ACTIVE", "INACTIVE", "PENDING", "SUSPENDED"}

VARIABLES
    max_users,  \* InMemoryUserRepository._max_users
    users,      \* InMemoryUserRepository._users: identifier -> object
    next_id,    \* InMemoryUserRepository._next_id
    lock,       \* InMemoryUserRepository._lock: the thread holding it
    heap,       \* the User objects: reference -> fields
    pc,         \* each thread's position
    call,       \* each thread's current (or last) call: operation, argument
    pre,        \* the store as the thread found it when it took the lock
    ret,        \* what each thread's last call returned or raised
    deleted,    \* history: the identifiers delete has removed so far
    task,       \* the create_user_async requests: position, arguments, result
    running,    \* the request the event loop is running, if any
    log,        \* the levels of the entries each request has logged
    instances,  \* the Foo, Bar and Baz objects: class, calls made so far
    txn         \* the use of database_transaction in progress

vars == <<max_users, users, next_id, lock, heap, pc, call, pre, ret, deleted,
          task, running, log, instances, txn>>

\* ------------------------------------------------------------------- User
Contains(s, c) == \E i \in DOMAIN s : s[i] = c

\* str.lower() on the letters of the sample addresses.
LowerChar(c) ==
    CASE c = "A" -> "a" [] c = "B" -> "b" [] c = "C" -> "c" [] c = "D" -> "d"
      [] c = "I" -> "i" [] c = "M" -> "m" [] c = "O" -> "o" [] OTHER -> c

Lower(s) == [i \in DOMAIN s |-> LowerChar(s[i])]

\* Mutant: an address of five characters is long enough.
IsValidEmailFrom5(email) == Contains(email, "@") /\ Contains(email, ".") /\ Len(email) >= 5

\* User._is_valid_email
IsValidEmail(email) == Contains(email, "@") /\ Contains(email, ".") /\ Len(email) > 5

\* User.__post_init__: TRUE when construction raises no ValueError
PostInitOk(email, age) == IsValidEmail(email) /\ ~(age # <<>> /\ age[1] < 0)

\* User.is_adult
is_adult(u) == u.age # <<>> /\ u.age[1] >= 18

\* The default of the preferences field, lines 156-163.
DefaultPreferences ==
    [theme |-> "light", notifications |-> TRUE, language |-> "en", timezone |-> "UTC"]

\* The dataclass constructor, lines 151-165: the fields of a new User made at
\* time now; preferences and metadata take their defaults.
Born(id, name, email, age, status, now) ==
    [alive |-> TRUE, id |-> id, name |-> name, email |-> email, age |-> age,
     status |-> status, preferences |-> DefaultPreferences, created_at |-> now,
     metadata |-> <<>>]

Unborn ==
    [alive |-> FALSE, id |-> 0, name |-> "", email |-> <<>>, age |-> <<>>,
     status |-> "PENDING", preferences |-> DefaultPreferences, created_at |-> 0,
     metadata |-> <<>>]

\* Mutant: a suspended user is not made active again (the call is ignored).
update_statusGuarded(u, s) ==
    IF u.status = "SUSPENDED" /\ s = "ACTIVE" THEN u ELSE [u EXCEPT !.status = s]

\* User.update_status, line 202: self.status = new_status
update_status(u, s) == [u EXCEPT !.status = s]

\* ---------------------------------------------------------------- results
NoRet == [kind |-> "none", code |-> "", val |-> <<>>]
Ok(v) == [kind |-> "ok", code |-> "", val |-> v]
Raise(kind, code, ctx) == [kind |-> kind, code |-> code, val |-> ctx]

NoTask == [pc |-> "new", email |-> <<>>, age |-> <<>>, user |-> NoObj, ret |-> NoRet]
\* No Foo, Bar or Baz object yet; no use of database_transaction yet.
NoInstance == [cls |-> "none", calls |-> 0]
NoTxn == [pc |-> "idle", fails |-> {}, body |-> "none", events |-> <<>>,
          pending |-> "none", ret |-> NoRet]
NoCall == [op |-> "none", arg |-> NoObj, id |-> 0, status |-> ""]
NoPre == [users |-> <<>>, next_id |-> 0, u |-> Unborn]

\* The keys of the store and their number (len(self._users)).
Keys(U) == DOMAIN U
Count(U) == Cardinality(DOMAIN U)

\* Mutants of the capacity test: the store may grow one past the capacity;
\* an overwrite at capacity is rejected too.
AtCapacityOffByOne(U, M, uid) == Count(U) > M /\ uid \notin Keys(U)
AtCapacityNoOverwrite(U, M, uid) == Count(U) >= M

\* save, line 408: the capacity test.
AtCapacity(U, M, uid) == Count(U) >= M /\ uid \notin Keys(U)

\* Mutant: only the identifier 0 gets a fresh identifier.
NeedsNewIdOnlyZero(U, uid) == uid = 0

\* save, line 419: whether a fresh identifier is assigned.
NeedsNewId(U, uid) == uid = 0 \/ uid \notin Keys(U)

\* Mutant: the counter is not advanced.
NextCounterStuck(N) == N

\* save, line 421: self._next_id += 1
NextCounter(N) == N + 1

\* Mutant: the age is not looked at again.
RevalidatesEmailOnly(u) == Contains(u.email, "@") /\ Contains(u.email, ".") /\ Len(u.email) > 5

\* save, lines 424-432: User(**user.to_dict()) re-runs __post_init__.
Revalidates(u) == PostInitOk(u.email, u.age)

\* dict insertion / overwrite: self._users[k] = o
Put(U, k, o) == [x \in Keys(U) \cup {k} |-> IF x = k THEN o ELSE U[x]]

\* del self._users[k]
Del(U, k) == [x \in Keys(U) \ {k} |-> U[x]]

\* The keys in dict iteration order.  Keys enter the dict in increasing order
\* (each new key is the counter's value), so the order is the numeric one.
RECURSIVE KeysInOrder(_)
KeysInOrder(S) ==
    IF S = {} THEN <<>>
    ELSE LET m == CHOOSE x \in S : \A y \in S : x <= y
         IN <<m>> \o KeysInOrder(S \ {m})

\* list(self._users.values())
Values(U) == LET ks == KeysInOrder(Keys(U)) IN [i \in DOMAIN ks |-> U[ks[i]]]

\* ---------------------------------------------------------- get_statistics
RECURSIVE SumAges(_, _, _)
SumAges(U, H, S) ==
    IF S = {} THEN 0
    ELSE LET k == CHOOSE x \in S : TRUE
         IN (IF H[U[k]].age # <<>> THEN H[U[k]].age[1] ELSE 0) + SumAges(U, H, S \ {k})

\* Mutant: the next identifier is taken to be the number of stored users
\* plus one.
NextAvailableIdFromCount(U, N) == Count(U) + 1

\* get_statistics, line 505: "next_available_id": self._next_id
NextAvailableId(U, N) == N

\* get_statistics, lines 483-506.  A quotient a / b is kept as the pair
\* [num |-> a, den |-> b]; the literal 0 is [num |-> 0, den |-> 1].  With
\* max_users = 0 the quotient of line 503 raises ZeroDivisionError.
get_statistics(U, H, M, N) ==
    LET adult_count == Cardinality({k \in Keys(U) : is_adult(H[U[k]])})
        age_count == Cardinality({k \in Keys(U) : H[U[k]].age # <<>>})
        total_age == SumAges(U, H, Keys(U))
        present == {s \in Statuses : \E k \in Keys(U) : H[U[k]].status = s}
    IN  IF M = 0
        THEN Raise("ZeroDivisionError", "", <<>>)
        ELSE Ok([total_users |-> Count(U),
                 status_distribution |->
                     [s \in present |-> Cardinality({k \in Keys(U) : H[U[k]].status = s})],
                 adult_users |-> adult_count,
                 minor_users |-> Count(U) - adult_count,
                 average_age |-> IF age_count > 0
                                 THEN [num |-> total_age, den |-> age_count]
                                 ELSE [num |-> 0, den |-> 1],
                 repository_capacity |-> M,
                 capacity_utilization |-> [num |-> Count(U), den |-> M],
                 next_available_id |-> NextAvailableId(U, N)])

\* ---------------------------------------------- the repository, call by call
\* save, lines 407-435, as one uninterrupted run on store U, counter N,
\* heap H, capacity M and user object o.
CapacityError(U, M) ==
    Raise("RepositoryError", "CAPACITY_EXCEEDED",
          [current_count |-> Count(U), max_capacity |-> M])

InvalidUser(u) == Raise("ValidationError", "INVALID_USER_DATA", [user_data |-> u])

\* Mutant: the identifier is assigned before the capacity is looked at.
saveAssignsFirst(U, N, H, M, o) ==
    LET fresh == NeedsNewId(U, H[o].id)
        H2 == IF fresh THEN [H EXCEPT ![o].id = N] ELSE H
        N2 == IF fresh THEN NextCounter(N) ELSE N
    IN IF AtCapacity(U, M, H[o].id)
       THEN [users |-> U, next_id |-> N2, heap |-> H2, ret |-> CapacityError(U, M)]
       ELSE IF ~Revalidates(H2[o])
            THEN [users |-> U, next_id |-> N2, heap |-> H2, ret |-> InvalidUser(H2[o])]
            ELSE [users |-> Put(U, H2[o].id, o), next_id |-> N2, heap |-> H2,
                  ret |-> Ok(H2[o].id)]

save(U, N, H, M, o) ==
    IF AtCapacity(U, M, H[o].id)
    THEN [users |-> U, next_id |-> N, heap |-> H, ret |-> CapacityError(U, M)]
    ELSE LET fresh == NeedsNewId(U, H[o].id)
             H2 == IF fresh THEN [H EXCEPT ![o].id = N] ELSE H
             N2 == IF fresh THEN NextCounter(N) ELSE N
         IN IF ~Revalidates(H2[o])
            THEN [users |-> U, next_id |-> N2, heap |-> H2, ret |-> InvalidUser(H2[o])]
            ELSE [users |-> Put(U, H2[o].id, o), next_id |-> N2, heap |-> H2,
                  ret |-> Ok(H2[o].id)]

\* Mutant: nothing is ever found.
find_by_idNothing(U, id) == Ok(NoObj)

\* find_by_id, lines 446-447: self._users.get(user_id)
find_by_id(U, id) == IF id \in Keys(U) THEN Ok(U[id]) ELSE Ok(NoObj)

\* find_all, lines 458-459: a new list of the stored references
find_all(U) == Ok(Values(U))

\* Mutant: the entry is reported as deleted and left in the store.
deleteKeepsEntry(U, id) ==
    IF id \in Keys(U) THEN [users |-> U, ret |-> Ok(TRUE)]
    ELSE [users |-> U, ret |-> Ok(FALSE)]

\* delete, lines 470-474
delete(U, id) ==
    IF id \in Keys(U) THEN [users |-> Del(U, id), ret |-> Ok(TRUE)]
    ELSE [users |-> U, ret |-> Ok(FALSE)]

\* ------------------------------------------------------------------- Init
\* Mutant: the counter starts at 0.
InitCounterFromZero ==
    /\ max_users \in 0..MaxCapacity
    /\ users = <<>>
    /\ next_id = 0
    /\ lock = NoThread
    /\ heap = [o \in Objs |-> Unborn]
    /\ pc = [t \in Threads |-> "idle"]
    /\ call = [t \in Threads |-> NoCall]
    /\ pre = [t \in Threads |-> NoPre]
    /\ ret = [t \in Threads |-> NoRet]
    /\ deleted = {}
    /\ task = [k \in Tasks |-> NoTask]
    /\ running = NoRunning
    /\ log = [k \in Tasks |-> <<>>]
    /\ instances = [i \in Insts |-> NoInstance]
    /\ txn = NoTxn

\* InMemoryUserRepository.__init__, lines 384-388, for a capacity 0..MaxCapacity.
Init ==
    /\ max_users \in 0..MaxCapacity
    /\ users = <<>>
    /\ next_id = 1
    /\ lock = NoThread
    /\ heap = [o \in Objs |-> Unborn]
    /\ pc = [t \in Threads |-> "idle"]
    /\ call = [t \in Threads |-> NoCall]
    /\ pre = [t \in Threads |-> NoPre]
    /\ ret = [t \in Threads |-> NoRet]
    /\ deleted = {}
    /\ task = [k \in Tasks |-> NoTask]
    /\ running = NoRunning
    /\ log = [k \in Tasks |-> <<>>]
    /\ instances = [i \in Insts |-> NoInstance]
    /\ txn = NoTxn

\* ---------------------------------------------------------- client actions
\* Some thread is inside a save of object o.
InUse(o) == \E t \in Threads : pc[t] # "idle" /\ call[t].op = "save" /\ call[t].arg = o

\* No client is at the point where a call has just returned to it.
NoneDone == \A t \in Threads : pc[t] # "done"

\* User(id, name, email, age): the dataclass constructor followed by
\* __post_init__; an invalid email or a negative age raises ValueError and no
\* object comes to exist.
NewUser(o, id, email, age) ==
    /\ ~heap[o].alive
    /\ NoneDone
    /\ PostInitOk(email, age)
    /\ heap' = [heap EXCEPT ![o] = Born(id, "n", email, age, "PENDING", 0)]
    /\ UNCHANGED <<instances, txn, deleted, task, running, log, max_users, users, next_id, lock, pc, call, pre, ret>>

\* user.email = e, user.age = a: plain attribute assignments by client code
\* (the dataclass is not frozen and nothing re-validates).
SetEmail(o, e) ==
    /\ heap[o].alive /\ ~InUse(o) /\ NoneDone /\ heap[o].email # e
    /\ heap' = [heap EXCEPT ![o].email = e]
    /\ UNCHANGED <<instances, txn, deleted, task, running, log, max_users, users, next_id, lock, pc, call, pre, ret>>

SetAge(o, a) ==
    /\ heap[o].alive /\ ~InUse(o) /\ NoneDone /\ heap[o].age # a
    /\ heap' = [heap EXCEPT ![o].age = a]
    /\ UNCHANGED <<instances, txn, deleted, task, running, log, max_users, users, next_id, lock, pc, call, pre, ret>>

\* The caller takes the result of its call and goes on.
Return(t) ==
    /\ pc[t] = "done"
    /\ pc' = [pc EXCEPT ![t] = "idle"]
    /\ call' = [call EXCEPT ![t] = NoCall]
    /\ ret' = [ret EXCEPT ![t] = NoRet]
    /\ UNCHANGED <<instances, txn, deleted, task, running, log, max_users, users, next_id, lock, heap, pre>>

\* ------------------------------------------- the repository, one call a step
\* A call by t ends with result r.
Done(t, op, o, id, r) ==
    /\ pc' = [pc EXCEPT ![t] = "done"]
    /\ call' = [call EXCEPT ![t] = [NoCall EXCEPT !.op = op, !.arg = o, !.id = id]]
    /\ ret' = [ret EXCEPT ![t] = r]

\* repository.save(o)
Save(t, o) ==
    /\ pc[t] = "idle" /\ heap[o].alive /\ next_id <= MaxId
    /\ LET r == save(users, next_id, heap, max_users, o)
       IN /\ users' = r.users
          /\ next_id' = r.next_id
          /\ heap' = r.heap
          /\ Done(t, "save", o, heap[o].id, r.ret)
    /\ UNCHANGED <<instances, txn, deleted, task, running, log, max_users, lock, pre>>

\* repository.find_by_id(id)
FindById(t, id) ==
    /\ pc[t] = "idle"
    /\ Done(t, "find_by_id", NoObj, id, find_by_id(users, id))
    /\ UNCHANGED <<instances, txn, deleted, task, running, log, max_users, users, next_id, lock, heap, pre>>

\* repository.find_all()
FindAll(t) ==
    /\ pc[t] = "idle"
    /\ Done(t, "find_all", NoObj, 0, find_all(users))
    /\ UNCHANGED <<instances, txn, deleted, task, running, log, max_users, users, next_id, lock, heap, pre>>

\* repository.delete(id)
Delete(t, id) ==
    /\ pc[t] = "idle"
    /\ users' = delete(users, id).users
    /\ deleted' = IF id \in Keys(users) THEN deleted \cup {id} ELSE deleted
    /\ Done(t, "delete", NoObj, id, delete(users, id).ret)
    /\ UNCHANGED <<instances, txn, task, running, log, max_users, next_id, lock, heap, pre>>

\* repository.get_statistics()
GetStatistics(t) ==
    /\ pc[t] = "idle"
    /\ Done(t, "get_statistics", NoObj, 0, get_statistics(users, heap, max_users, next_id))
    /\ UNCHANGED <<instances, txn, deleted, task, running, log, max_users, users, next_id, lock, heap, pre>>

Next ==
    \/ \E o \in Objs, id \in UserIds, e \in Emails, a \in Ages : NewUser(o, id, e, a)
    \/ \E o \in Objs, e \in Emails : SetEmail(o, e)
    \/ \E o \in Objs, a \in Ages : SetAge(o, a)
    \/ \E t \in Clients, o \in Objs : Save(t, o)
    \/ \E t \in Clients, id \in UserIds : FindById(t, id)
    \/ \E t \in Clients : FindAll(t)
    \/ \E t \in Clients, id \in UserIds : Delete(t, id)
    \/ \E t \in Clients : GetStatistics(t)
    \/ \E t \in Clients : Return(t)

Spec == Init /\ [][Next]_vars

\* ------------------------------------------------------- threads and the lock
SavesInFlight ==
    Cardinality({t \in Threads : pc[t] \notin {"idle", "done"} /\ call[t].op = "save"})

\* A thread starts a repository call and reaches "with self._lock:".
Call(t, op, o, id) ==
    /\ pc[t] = "idle"
    /\ op = "save" => (heap[o].alive /\ next_id + SavesInFlight <= MaxId)
    /\ pc' = [pc EXCEPT ![t] = "waiting"]
    /\ call' = [call EXCEPT ![t] = [NoCall EXCEPT !.op = op, !.arg = o, !.id = id]]
    /\ UNCHANGED <<instances, txn, deleted, task, running, log, max_users, users, next_id, lock, heap, pre, ret>>

\* Mutant: a lock that excludes nobody.
CanAcquireAlways(t) == TRUE

\* threading.RLock.acquire: free, or already held by this thread.
CanAcquire(t) == lock = NoThread \/ lock = t

\* Mutant: the body is entered without waiting for the lock.
AcquireWithoutWaiting(t) ==
    /\ pc[t] = "waiting"
    /\ lock' = t
    /\ pc' = [pc EXCEPT ![t] = IF call[t].op = "save" THEN "save_capacity" ELSE "locked"]
    /\ pre' = [pre EXCEPT ![t] =
                 [users |-> users, next_id |-> next_id,
                  u |-> IF call[t].op = "save" THEN heap[call[t].arg] ELSE Unborn]]
    /\ UNCHANGED <<instances, txn, deleted, task, running, log, max_users, users, next_id, heap, call, ret>>

\* "with self._lock:" is entered.
Acquire(t) ==
    /\ pc[t] = "waiting"
    /\ CanAcquire(t)
    /\ lock' = t
    /\ pc' = [pc EXCEPT ![t] = IF call[t].op = "save" THEN "save_capacity" ELSE "locked"]
    /\ pre' = [pre EXCEPT ![t] =
                 [users |-> users, next_id |-> next_id,
                  u |-> IF call[t].op = "save" THEN heap[call[t].arg] ELSE Unborn]]
    /\ UNCHANGED <<instances, txn, deleted, task, running, log, max_users, users, next_id, heap, call, ret>>

\* Mutant: the lock is released on return only, not on raise.
LeaveHoldingOnRaise(t, r) ==
    /\ lock' = IF r.kind = "ok" THEN NoThread ELSE lock
    /\ pc' = [pc EXCEPT ![t] = "done"]
    /\ ret' = [ret EXCEPT ![t] = r]
    /\ pre' = [pre EXCEPT ![t] = NoPre]
    /\ UNCHANGED call

\* The with block is left, by return or by raise: the lock is released and the
\* call ends with result r.
Leave(t, r) ==
    /\ lock' = NoThread
    /\ pc' = [pc EXCEPT ![t] = "done"]
    /\ ret' = [ret EXCEPT ![t] = r]
    /\ pre' = [pre EXCEPT ![t] = NoPre]
    /\ UNCHANGED call

\* save, lines 408-416
SaveCapacity(t) ==
    /\ pc[t] = "save_capacity"
    /\ IF AtCapacity(users, max_users, heap[call[t].arg].id)
       THEN /\ Leave(t, CapacityError(users, max_users))
            /\ UNCHANGED <<instances, txn, deleted, task, running, log, max_users, users, next_id, heap>>
       ELSE /\ pc' = [pc EXCEPT ![t] = "save_assign"]
            /\ UNCHANGED <<instances, txn, deleted, task, running, log, max_users, users, next_id, lock, heap, call, pre, ret>>

\* save, lines 419-421
SaveAssign(t) ==
    /\ pc[t] = "save_assign"
    /\ IF NeedsNewId(users, heap[call[t].arg].id)
       THEN /\ heap' = [heap EXCEPT ![call[t].arg].id = next_id]
            /\ next_id' = NextCounter(next_id)
       ELSE UNCHANGED <<heap, next_id>>
    /\ pc' = [pc EXCEPT ![t] = "save_validate"]
    /\ UNCHANGED <<instances, txn, deleted, task, running, log, max_users, users, lock, call, pre, ret>>

\* save, lines 424-432
SaveValidate(t) ==
    /\ pc[t] = "save_validate"
    /\ IF ~Revalidates(heap[call[t].arg])
       THEN /\ Leave(t, InvalidUser(heap[call[t].arg]))
            /\ UNCHANGED <<instances, txn, deleted, task, running, log, max_users, users, next_id, heap>>
       ELSE /\ pc' = [pc EXCEPT ![t] = "save_store"]
            /\ UNCHANGED <<instances, txn, deleted, task, running, log, max_users, users, next_id, lock, heap, call, pre, ret>>

\* save, lines 434-435
SaveStore(t) ==
    /\ pc[t] = "save_store"
    /\ users' = Put(users, heap[call[t].arg].id, call[t].arg)
    /\ Leave(t, Ok(heap[call[t].arg].id))
    /\ UNCHANGED <<instances, txn, deleted, task, running, log, max_users, next_id, heap>>

\* find_by_id, find_all, delete, get_statistics: the body under the lock.
LockedFindById(t) ==
    /\ pc[t] = "locked" /\ call[t].op = "find_by_id"
    /\ Leave(t, find_by_id(users, call[t].id))
    /\ UNCHANGED <<instances, txn, deleted, task, running, log, max_users, users, next_id, heap>>

LockedFindAll(t) ==
    /\ pc[t] = "locked" /\ call[t].op = "find_all"
    /\ Leave(t, find_all(users))
    /\ UNCHANGED <<instances, txn, deleted, task, running, log, max_users, users, next_id, heap>>

LockedDelete(t) ==
    /\ pc[t] = "locked" /\ call[t].op = "delete"
    /\ users' = delete(users, call[t].id).users
    /\ deleted' = IF call[t].id \in Keys(users) THEN deleted \cup {call[t].id} ELSE deleted
    /\ Leave(t, delete(users, call[t].id).ret)
    /\ UNCHANGED <<instances, txn, task, running, log, max_users, next_id, heap>>

LockedGetStatistics(t) ==
    /\ pc[t] = "locked" /\ call[t].op = "get_statistics"
    /\ Leave(t, get_statistics(users, heap, max_users, next_id))
    /\ UNCHANGED <<instances, txn, deleted, task, running, log, max_users, users, next_id, heap>>

\* What the client threads construct and assign in the threaded specification.
ThreadEmails == {EmailOk, EmailShort}
ThreadIds == {0, 1}

NextThreads ==
    \/ \E o \in Objs, id \in ThreadIds : NewUser(o, id, EmailOk, <<>>)
    \/ \E o \in Objs, e \in ThreadEmails : SetEmail(o, e)
    \/ \E t \in Threads, o \in Objs : Call(t, "save", o, heap[o].id)
    \/ \E t \in Threads, id \in ThreadIds : Call(t, "find_by_id", NoObj, id)
    \/ \E t \in Threads, id \in ThreadIds : Call(t, "delete", NoObj, id)
    \/ \E t \in Threads : Call(t, "find_all", NoObj, 0)
    \/ \E t \in Threads : Call(t, "get_statistics", NoObj, 0)
    \/ \E t \in Threads : Acquire(t)
    \/ \E t \in Threads : SaveCapacity(t)
    \/ \E t \in Threads : SaveAssign(t)
    \/ \E t \in Threads : SaveValidate(t)
    \/ \E t \in Threads : SaveStore(t)
    \/ \E t \in Threads : LockedFindById(t)
    \/ \E t \in Threads : LockedFindAll(t)
    \/ \E t \in Threads : LockedDelete(t)
    \/ \E t \in Threads : LockedGetStatistics(t)
    \/ \E t \in Threads : Return(t)

SpecThreads == Init /\ [][NextThreads]_vars

\* The identifiers looked up and deleted in the scheduling specification.
LockIds == {1}

\* The one User of the scheduling specification; its email is made invalid
\* at some time.
LockObjs == {"u1"}

\* The same threads and steps as NextThreads over fewer arguments.
NextLock ==
    \/ \E o \in LockObjs : NewUser(o, 0, EmailOk, <<>>)
    \/ \E o \in LockObjs : SetEmail(o, EmailShort)
    \/ \E t \in Threads, o \in LockObjs : Call(t, "save", o, heap[o].id)
    \/ \E t \in Threads, id \in LockIds : Call(t, "find_by_id", NoObj, id)
    \/ \E t \in Threads, id \in LockIds : Call(t, "delete", NoObj, id)
    \/ \E t \in Threads : Call(t, "find_all", NoObj, 0)
    \/ \E t \in Threads : Call(t, "get_statistics", NoObj, 0)
    \/ \E t \in Threads : Acquire(t)
    \/ \E t \in Threads : SaveCapacity(t)
    \/ \E t \in Threads : SaveAssign(t)
    \/ \E t \in Threads : SaveValidate(t)
    \/ \E t \in Threads : SaveStore(t)
    \/ \E t \in Threads : LockedFindById(t)
    \/ \E t \in Threads : LockedFindAll(t)
    \/ \E t \in Threads : LockedDelete(t)
    \/ \E t \in Threads : LockedGetStatistics(t)
    \/ \E t \in Threads : Return(t)

\* The steps of thread t inside the with block.
Body(t) ==
    \/ SaveCapacity(t) \/ SaveAssign(t) \/ SaveValidate(t) \/ SaveStore(t)
    \/ LockedFindById(t) \/ LockedFindAll(t) \/ LockedDelete(t)
    \/ LockedGetStatistics(t)

\* Fair scheduling: a thread that can run inside the with block does run, and
\* a thread that waits for the lock gets it if the lock is free again and
\* again.  Whether a thread starts a call, or takes its result, is up to it.
SpecLock ==
    /\ Init /\ [][NextLock]_vars
    /\ \A t \in Threads : WF_vars(Body(t)) /\ SF_vars(Acquire(t))

\* ------------------------------------------------------------- UserService
\* Mutant: the emails are compared as they are.
DuplicatesCaseSensitive(U, H, email) ==
    {i \in DOMAIN Values(U) : H[Values(U)[i]].email = email}

\* create_user_async, lines 578-580: the positions, in find_all()'s order, of
\* the stored users whose email equals the given one ignoring case.
Duplicates(U, H, email) ==
    {i \in DOMAIN Values(U) : Lower(H[Values(U)[i]].email) = Lower(email)}

\* create_user_async, lines 581-588: the error raised for the first duplicate.
DuplicateEmail(U, H, email) ==
    LET i == CHOOSE x \in Duplicates(U, H, email) :
                 \A y \in Duplicates(U, H, email) : x <= y
    IN Raise("ValidationError", "DUPLICATE_EMAIL",
             [email |-> email, existing_user_id |-> H[Values(U)[i]].id])

\* Mutant: the status is left at the dataclass default.
NewServiceUserPending(email, age) ==
    Born(0, "n", email, age, "PENDING", 0)

\* create_user_async, lines 591-597: User(id=0, ..., status=UserStatus.ACTIVE)
NewServiceUser(email, age) ==
    Born(0, "n", email, age, "ACTIVE", 0)

\* The object a construction takes from the heap.
FreeObj == CHOOSE o \in Objs : ~heap[o].alive

\* The request stops running: the event loop is free again.
Yield(k, loop) == running' = IF loop THEN NoRunning ELSE running

\* The request ends with result r.
Finish(k, r) == task' = [task EXCEPT ![k].pc = "done", ![k].ret = r]

\* create_user_async, lines 566-575: the entry is logged and the coroutine is
\* suspended in asyncio.sleep.  On an event loop (loop) a coroutine runs only
\* while no other does.
Start(k, email, age, loop) ==
    /\ task[k].pc = "new"
    /\ loop => running = NoRunning
    /\ task' = [task EXCEPT ![k] = [pc |-> "sleeping", email |-> email, age |-> age,
                                    user |-> NoObj, ret |-> NoRet]]
    /\ log' = [log EXCEPT ![k] = Append(@, "INFO")]
    /\ UNCHANGED <<instances, txn, max_users, users, next_id, heap, lock, pc, call, pre, ret, deleted, running>>

\* create_user_async, lines 578-588: the duplicate scan.  On an event loop
\* (loop) the request runs from here to its end with no other request between.
Scan(k, loop) ==
    /\ task[k].pc = "sleeping"
    /\ loop => running = NoRunning
    /\ IF Duplicates(users, heap, task[k].email) # {}
       THEN /\ Finish(k, DuplicateEmail(users, heap, task[k].email))
            /\ UNCHANGED running
       ELSE /\ task' = [task EXCEPT ![k].pc = "scanned"]
            /\ running' = IF loop THEN k ELSE running
    /\ UNCHANGED <<instances, txn, max_users, users, next_id, heap, lock, pc, call, pre, ret, deleted, log>>

\* create_user_async, lines 591-597: the User is constructed; __post_init__
\* raises ValueError outside the try block.
Construct(k, loop) ==
    /\ task[k].pc = "scanned"
    /\ loop => running = k
    /\ IF ~PostInitOk(task[k].email, task[k].age)
       THEN /\ Finish(k, Raise("ValueError", "", <<>>))
            /\ Yield(k, loop)
            /\ UNCHANGED heap
       ELSE /\ \E o \in Objs : ~heap[o].alive
            /\ heap' = [heap EXCEPT ![FreeObj] = NewServiceUser(task[k].email, task[k].age)]
            /\ task' = [task EXCEPT ![k].pc = "constructed", ![k].user = FreeObj]
            /\ UNCHANGED running
    /\ UNCHANGED <<instances, txn, max_users, users, next_id, lock, pc, call, pre, ret, deleted, log>>

\* Mutant: the emails are looked at again in the step that saves (check and
\* insert as one step).
SvcSaveChecked(k, loop) ==
    /\ task[k].pc = "constructed"
    /\ loop => running = k
    /\ next_id <= MaxId
    /\ IF Duplicates(users, heap, task[k].email) # {}
       THEN /\ Finish(k, DuplicateEmail(users, heap, task[k].email))
            /\ UNCHANGED <<users, next_id, heap, log>>
       ELSE LET r == save(users, next_id, heap, max_users, task[k].user)
            IN /\ users' = r.users
               /\ next_id' = r.next_id
               /\ heap' = r.heap
               /\ log' = [log EXCEPT ![k] = Append(@, "INFO")]
               /\ Finish(k, IF r.ret.kind = "ok" THEN Ok(task[k].user) ELSE r.ret)
    /\ Yield(k, loop)
    /\ UNCHANGED <<instances, txn, max_users, lock, pc, call, pre, ret, deleted>>

\* Mutant: the failure of save is wrapped in a new RepositoryError.
PropagatedWrapped(e) == Raise("RepositoryError", "SAVE_FAILED", [cause |-> e.code])

\* create_user_async, line 621: the bare raise re-raises the exception caught.
Propagated(e) == e

\* create_user_async, lines 599-621: save, then either the identifier is
\* assigned and the user returned, or the failure is logged and re-raised.
SvcSave(k, loop) ==
    /\ task[k].pc = "constructed"
    /\ loop => running = k
    /\ next_id <= MaxId
    /\ LET r == save(users, next_id, heap, max_users, task[k].user)
       IN /\ users' = r.users
          /\ next_id' = r.next_id
          /\ IF r.ret.kind = "ok"
             THEN /\ heap' = [r.heap EXCEPT ![task[k].user].id = r.ret.val]
                  /\ log' = [log EXCEPT ![k] = Append(@, "INFO")]
                  /\ Finish(k, Ok(task[k].user))
             ELSE /\ heap' = r.heap
                  /\ log' = [log EXCEPT ![k] = Append(@, "ERROR")]
                  /\ Finish(k, Propagated(r.ret))
    /\ Yield(k, loop)
    /\ UNCHANGED <<instances, txn, max_users, lock, pc, call, pre, ret, deleted>>

\* The caller has the result; a User that was never stored is dropped with it.
Collect(k, loop) ==
    /\ task[k].pc = "done"
    /\ loop => running = NoRunning
    /\ task' = [task EXCEPT ![k] = NoTask]
    /\ log' = [log EXCEPT ![k] = <<>>]
    /\ heap' = IF task[k].ret.kind # "ok" /\ task[k].user # NoObj
               THEN [heap EXCEPT ![task[k].user] = Unborn]
               ELSE heap
    /\ UNCHANGED <<instances, txn, max_users, users, next_id, lock, pc, call, pre, ret, deleted, running>>

\* Mutant: the coroutine is suspended once more between the scan and the
\* save, so the event loop may run another request there.
AwaitAfterScan == FALSE

\* create_user_async, lines 575-611: asyncio.sleep at line 575 is the only
\* await, and it precedes the scan; from the scan on the coroutine keeps the
\* event loop to its end.
NoAwaitAfterScan == TRUE

\* The requests as coroutines of one event loop (main, lines 887-892).
NextLoop ==
    \/ \E k \in Tasks, e \in SvcEmails, a \in SvcAges : Start(k, e, a, NoAwaitAfterScan)
    \/ \E k \in Tasks : Scan(k, NoAwaitAfterScan)
    \/ \E k \in Tasks : Construct(k, NoAwaitAfterScan)
    \/ \E k \in Tasks : SvcSave(k, NoAwaitAfterScan)
    \/ \E k \in Tasks : Collect(k, NoAwaitAfterScan)

SpecLoop == Init /\ [][NextLoop]_vars

\* The requests on threads of their own, each call of the repository atomic
\* under the repository's lock.
NextSvcThreads ==
    \/ \E k \in Tasks, e \in SvcEmails, a \in SvcAges : Start(k, e, a, FALSE)
    \/ \E k \in Tasks : Scan(k, FALSE)
    \/ \E k \in Tasks : Construct(k, FALSE)
    \/ \E k \in Tasks : SvcSave(k, FALSE)
    \/ \E k \in Tasks : Collect(k, FALSE)

SpecSvcThreads == Init /\ [][NextSvcThreads]_vars

\* ------------------------------------------------- the batch of main
\* main (client t1) is suspended in "await asyncio.gather(...)", line 892.
Awaiting == \A t \in Clients : pc[t] = "idle"

\* A request has ended with an exception.
Failed(k) == task[k].pc = "done" /\ task[k].ret.kind # "ok"

\* Mutant: gather without return_exceptions: the first exception is raised
\* in main at once, main leaves, and the requests still pending run no more.
GatherFailFast(t) ==
    /\ pc[t] = "idle"
    /\ IF \E k \in Tasks : Failed(k)
       THEN Done(t, "gather", NoObj, 0, task[CHOOSE k \in Tasks : Failed(k)].ret)
       ELSE /\ \A k \in Tasks : task[k].pc = "done"
            /\ Done(t, "gather", NoObj, 0, Ok([k \in Tasks |-> task[k].ret]))
    /\ UNCHANGED <<instances, txn, max_users, users, next_id, heap, lock, pre, deleted, task, running, log>>

\* asyncio.gather(*tasks, return_exceptions=True), line 892: main goes on
\* when every request has ended, with the list of their users and exceptions.
Gather(t) ==
    /\ pc[t] = "idle"
    /\ \A k \in Tasks : task[k].pc = "done"
    /\ Done(t, "gather", NoObj, 0, Ok([k \in Tasks |-> task[k].ret]))
    /\ UNCHANGED <<instances, txn, max_users, users, next_id, heap, lock, pre, deleted, task, running, log>>

\* main, lines 886-892: every request is started once on the one event loop
\* and runs while main awaits the gathering.
NextBatch ==
    \/ \E k \in Tasks, e \in SvcEmails, a \in SvcAges : Awaiting /\ Start(k, e, a, TRUE)
    \/ \E k \in Tasks : Awaiting /\ Scan(k, TRUE)
    \/ \E k \in Tasks : Awaiting /\ Construct(k, TRUE)
    \/ \E k \in Tasks : Awaiting /\ SvcSave(k, TRUE)
    \/ \E t \in Clients : Gather(t)

\* The event loop runs a ready coroutine or a due timer as long as there is
\* one: a step that stays possible is taken.
SpecBatch == Init /\ [][NextBatch]_vars /\ WF_vars(NextBatch)

\* ------------------------------------- statistics and the list of find_all
\* The ages client code gives its users in the statistics specification.
StatAges == {<<>>, <<17>>, <<18>>}
\* The statuses client code moves a user to there.
StatStatuses == {"ACTIVE", "SUSPENDED"}

\* user.update_status(s), lines 192-202
UpdateStatus(o, s) ==
    /\ heap[o].alive /\ ~InUse(o) /\ NoneDone /\ heap[o].status # s
    /\ heap' = [heap EXCEPT ![o] = update_status(@, s)]
    /\ UNCHANGED <<instances, txn, deleted, task, running, log, max_users, users, next_id, lock, pc, call, pre, ret>>

\* Client t holds the list find_all returned to it.
HoldsList(t) == pc[t] = "done" /\ call[t].op = "find_all" /\ ret[t].kind = "ok"

\* The list L without its i-th element.
Without(L, i) == [j \in 1..(Len(L) - 1) |-> IF j < i THEN L[j] ELSE L[j + 1]]

\* del lst[i] on the list find_all returned (lines 458-459: the list is a new
\* list object, not the dict's view).
ListRemove(t, i) ==
    /\ HoldsList(t) /\ i \in DOMAIN ret[t].val
    /\ ret' = [ret EXCEPT ![t].val = Without(@, i)]
    /\ UNCHANGED <<instances, txn, deleted, task, running, log, max_users, users, next_id, lock, heap, pc, call, pre>>

\* lst[i] = lst[j] on the list find_all returned.
ListReplace(t, i, j) ==
    /\ HoldsList(t) /\ i \in DOMAIN ret[t].val /\ j \in DOMAIN ret[t].val
    /\ ret[t].val[i] # ret[t].val[j]
    /\ ret' = [ret EXCEPT ![t].val[i] = ret[t].val[j]]
    /\ UNCHANGED <<instances, txn, deleted, task, running, log, max_users, users, next_id, lock, heap, pc, call, pre>>

\* lst[i].age = a on the list find_all returned: the element is the stored
\* object itself (list(self._users.values()) copies references).
ListSetAge(t, i, a) ==
    /\ HoldsList(t) /\ i \in DOMAIN ret[t].val
    /\ heap[ret[t].val[i]].age # a
    /\ heap' = [heap EXCEPT ![ret[t].val[i]].age = a]
    /\ UNCHANGED <<instances, txn, deleted, task, running, log, max_users, users, next_id, lock, pc, call, pre, ret>>

\* lst[i].update_status(s) on the list find_all returned.
ListUpdateStatus(t, i, s) ==
    /\ HoldsList(t) /\ i \in DOMAIN ret[t].val
    /\ heap[ret[t].val[i]].status # s
    /\ heap' = [heap EXCEPT ![ret[t].val[i]] = update_status(@, s)]
    /\ UNCHANGED <<instances, txn, deleted, task, running, log, max_users, users, next_id, lock, pc, call, pre, ret>>

\* _calculate_basic_statistics, lines 648-685, on the list L of users.
calculate_basic_statistics(L, H) ==
    LET adult_count == Cardinality({i \in DOMAIN L : is_adult(H[L[i]])})
        age_count == Cardinality({i \in DOMAIN L : H[L[i]].age # <<>>})
        total_age == SumAges(L, H, DOMAIN L)
        present == {s \in Statuses : \E i \in DOMAIN L : H[L[i]].status = s}
    IN  IF Len(L) = 0
        THEN [total_users |-> 0,
              status_distribution |-> [s \in {} |-> 0],
              adult_users |-> 0,
              minor_users |-> 0,
              average_age |-> [num |-> 0, den |-> 1]]
        ELSE [total_users |-> Len(L),
              status_distribution |->
                  [s \in present |-> Cardinality({i \in DOMAIN L : H[L[i]].status = s})],
              adult_users |-> adult_count,
              minor_users |-> Len(L) - adult_count,
              average_age |-> IF age_count > 0
                              THEN [num |-> total_age, den |-> age_count]
                              ELSE [num |-> 0, den |-> 1]]

\* stats['service_uptime_seconds'] = ..., line 638
WithUptime(stats, up) ==
    [f \in DOMAIN stats \cup {"service_uptime_seconds"} |->
        IF f = "service_uptime_seconds" THEN up ELSE stats[f]]

\* get_user_statistics, lines 631-646, on a repository that has
\* get_statistics (provides) or only the protocol's find_all; up is the
\* service's uptime in seconds.
get_user_statistics(provides, U, H, M, N, up) ==
    LET stats == IF provides THEN get_statistics(U, H, M, N)
                 ELSE Ok(calculate_basic_statistics(find_all(U).val, H))
    IN IF stats.kind = "ok" THEN Ok(WithUptime(stats.val, up)) ELSE stats

\* The uptimes the clock may show.
Uptimes == {0, 1}

\* service.get_user_statistics()
GetUserStatistics(t, provides, up) ==
    /\ pc[t] = "idle"
    /\ Done(t, IF provides THEN "get_user_statistics" ELSE "get_user_statistics_basic",
            NoObj, 0, get_user_statistics(provides, users, heap, max_users, next_id, up))
    /\ UNCHANGED <<instances, txn, deleted, task, running, log, max_users, users, next_id, lock, heap, pre>>

NextStats ==
    \/ \E o \in Objs, a \in StatAges : NewUser(o, 0, EmailOk, a)
    \/ \E o \in Objs, a \in StatAges : SetAge(o, a)
    \/ \E o \in Objs, s \in StatStatuses : UpdateStatus(o, s)
    \/ \E t \in Clients, o \in Objs : Save(t, o)
    \/ \E t \in Clients, id \in UserIds : FindById(t, id)
    \/ \E t \in Clients : FindAll(t)
    \/ \E t \in Clients : GetStatistics(t)
    \/ \E t \in Clients, p \in BOOLEAN, up \in Uptimes : GetUserStatistics(t, p, up)
    \/ \E t \in Clients, i \in 1..MaxCapacity : ListRemove(t, i)
    \/ \E t \in Clients, i \in 1..MaxCapacity, j \in 1..MaxCapacity : ListReplace(t, i, j)
    \/ \E t \in Clients, i \in 1..MaxCapacity, a \in StatAges : ListSetAge(t, i, a)
    \/ \E t \in Clients, i \in 1..MaxCapacity, s \in StatStatuses : ListUpdateStatus(t, i, s)
    \/ \E t \in Clients : Return(t)

SpecStats == Init /\ [][NextStats]_vars

\* ------------------------------------------------------ User construction
EmailNeither == <<"a", "b", "c", "d", "e", "f">>
EmailEmpty == <<>>
\* The arguments client code calls the constructor with.
UserEmails == {EmailOk, EmailShort, EmailNoAt, EmailNoDot, EmailUpper, EmailNeither, EmailEmpty}
UserAges == {<<>>, <<-1>>, <<0>>, <<18>>}
NewIds == {0, 1}

\* __post_init__, lines 177-181: the ValueError raised, the email looked at
\* first.  val keeps the message and the arguments of the constructor.
PostInitError(email, age) ==
    Raise("ValueError", "",
          [message |-> IF ~IsValidEmail(email) THEN "Invalid email format"
                       ELSE "Age cannot be negative",
           email |-> email, age |-> age])

UserNames == {"Ann"}
\* What time.time() may show when a User is made.
Clock == {0, 1}

\* User(id=id, name=name, email=email, age=age) called by client t at time
\* now: the dataclass constructor and __post_init__, lines 151-181.  Either
\* the object comes to exist with the default status, or ValueError is raised
\* and no object is left.
Construction(t, o, id, name, email, age, now) ==
    /\ pc[t] = "idle" /\ ~heap[o].alive
    /\ IF PostInitOk(email, age)
       THEN /\ heap' = [heap EXCEPT ![o] = Born(id, name, email, age, "PENDING", now)]
            /\ Done(t, "User", o, id, Ok(o))
       ELSE /\ heap' = heap
            /\ Done(t, "User", NoObj, id, PostInitError(email, age))
    /\ UNCHANGED <<instances, txn, deleted, task, running, log, max_users, users, next_id, lock, pre>>

\* user.update_status(s) called by client t, lines 192-202: no test of the
\* current or the new status; the method returns None.
UpdateStatusCall(t, o, s) ==
    /\ pc[t] = "idle" /\ heap[o].alive
    /\ heap' = [heap EXCEPT ![o] = update_status(@, s)]
    /\ pc' = [pc EXCEPT ![t] = "done"]
    /\ call' = [call EXCEPT ![t] = [NoCall EXCEPT !.op = "update_status", !.arg = o,
                                                  !.status = s]]
    /\ ret' = [ret EXCEPT ![t] = Ok(NoObj)]
    /\ UNCHANGED <<instances, txn, deleted, task, running, log, max_users, users, next_id, lock, pre>>

NextUser ==
    \/ \E t \in Clients, o \in Objs, id \in NewIds, n \in UserNames, e \in UserEmails,
          a \in UserAges, now \in Clock :
          Construction(t, o, id, n, e, a, now)
    \/ \E t \in Clients, o \in Objs, s \in Statuses : UpdateStatusCall(t, o, s)
    \/ \E t \in Clients : Return(t)

SpecUser == Init /\ [][NextUser]_vars

\* ------------------------------------------------------- Foo, Bar and Baz
\* src/domains/core/foobar.py, ProcessingConstants, lines 36-38.
FOO_ACTION_RESULT == "Foo did something successfully"
BAR_ACTION_RESULT == "Bar performed its action"
BAZ_ACTION_RESULT == "Baz executed its method"

Classes == {"Foo", "Bar", "Baz"}

\* Mutant: the three methods return the same constant.
do_somethingOfFoo(cls) == FOO_ACTION_RESULT

\* Foo.do_something, Bar.do_something, Baz.do_something: the constant of the
\* object's class.
do_something(cls) ==
    CASE cls = "Foo" -> FOO_ACTION_RESULT
      [] cls = "Bar" -> BAR_ACTION_RESULT
      [] cls = "Baz" -> BAZ_ACTION_RESULT

\* Foo(), Bar(), Baz(): __init__ sets nothing.
Instantiate(i, cls) ==
    /\ instances[i].cls = "none"
    /\ instances' = [instances EXCEPT ![i].cls = cls]
    /\ UNCHANGED <<txn, deleted, task, running, log, max_users, users, next_id, lock, heap,
                   pc, call, pre, ret>>

\* instance.do_something() called by thread t; the call is counted.
DoSomething(t, i) ==
    /\ pc[t] = "idle" /\ instances[i].cls # "none" /\ instances[i].calls < MaxCalls
    /\ Done(t, "do_something", i, 0, Ok(do_something(instances[i].cls)))
    /\ instances' = [instances EXCEPT ![i].calls = @ + 1]
    /\ UNCHANGED <<txn, deleted, task, running, log, max_users, users, next_id, lock, heap, pre>>

NextFoo ==
    \/ \E i \in Insts, c \in Classes : Instantiate(i, c)
    \/ \E t \in Threads, i \in Insts : DoSomething(t, i)
    \/ \E t \in Threads : Return(t)

SpecFoo == Init /\ [][NextFoo]_vars

\* --------------------------------------------------- database_transaction
\* The calls the context manager makes on the connection and its cursor; in
\* one use any of them may raise sqlite3.Error (txn.fails).
DbCalls == {"cursor", "commit", "rollback", "close"}
\* How the managed block ends: normally, with an Exception, or with a
\* BaseException that is no Exception.
BlockEnds == {"ok", "ValueError", "KeyboardInterrupt"}
IsException(e) == e # "KeyboardInterrupt"
DbError(c) == IF c = "cursor" THEN "sqlite3.Error in cursor"
              ELSE IF c = "commit" THEN "sqlite3.Error in commit"
              ELSE IF c = "rollback" THEN "sqlite3.Error in rollback"
              ELSE "sqlite3.Error in close"

\* "with database_transaction(connection) as cursor:", line 843: the cursor
\* is taken before the try; if that raises, nothing else runs.
TxnEnter(fails) ==
    /\ txn.pc = "idle"
    /\ txn' = IF "cursor" \in fails
              THEN [txn EXCEPT !.pc = "done", !.fails = fails,
                               !.ret = Raise(DbError("cursor"), "", <<>>)]
              ELSE [txn EXCEPT !.pc = "block", !.fails = fails]
    /\ UNCHANGED <<instances, deleted, task, running, log, max_users, users, next_id, lock,
                   heap, pc, call, pre, ret>>

\* Line 845, the yield: the managed block runs and ends.  An Exception goes
\* to the except clause, any other BaseException to the finally clause only.
TxnBlock(end) ==
    /\ txn.pc = "block"
    /\ txn' = [txn EXCEPT !.body = end,
                          !.pending = IF end = "ok" THEN "none" ELSE end,
                          !.pc = IF end = "ok" THEN "commit"
                                 ELSE IF IsException(end) THEN "rollback" ELSE "close"]
    /\ UNCHANGED <<instances, deleted, task, running, log, max_users, users, next_id, lock,
                   heap, pc, call, pre, ret>>

\* Line 846: connection.commit(), inside the try.
TxnCommit ==
    /\ txn.pc = "commit"
    /\ txn' = IF "commit" \in txn.fails
              THEN [txn EXCEPT !.events = Append(@, "commit"), !.pc = "rollback",
                               !.pending = DbError("commit")]
              ELSE [txn EXCEPT !.events = Append(@, "commit"), !.pc = "close"]
    /\ UNCHANGED <<instances, deleted, task, running, log, max_users, users, next_id, lock,
                   heap, pc, call, pre, ret>>

\* Mutant: the except clause has no raise: the error ends there.
TxnRollbackSwallows ==
    /\ txn.pc = "rollback"
    /\ txn' = [txn EXCEPT !.events = Append(@, "rollback"), !.pc = "close",
                          !.pending = IF "rollback" \in txn.fails
                                      THEN DbError("rollback") ELSE "none"]
    /\ UNCHANGED <<instances, deleted, task, running, log, max_users, users, next_id, lock,
                   heap, pc, call, pre, ret>>

\* Lines 847-849: connection.rollback(), then the bare raise.
TxnRollback ==
    /\ txn.pc = "rollback"
    /\ txn' = [txn EXCEPT !.events = Append(@, "rollback"), !.pc = "close",
                          !.pending = IF "rollback" \in txn.fails
                                      THEN DbError("rollback") ELSE @]
    /\ UNCHANGED <<instances, deleted, task, running, log, max_users, users, next_id, lock,
                   heap, pc, call, pre, ret>>

\* Lines 850-851: finally cursor.close(); then the with statement ends,
\* normally or with the exception in flight.
TxnClose ==
    /\ txn.pc = "close"
    /\ LET e == IF "close" \in txn.fails THEN DbError("close") ELSE txn.pending
       IN txn' = [txn EXCEPT !.events = Append(@, "close"), !.pc = "done", !.pending = e,
                             !.ret = IF e = "none" THEN Ok(NoObj) ELSE Raise(e, "", <<>>)]
    /\ UNCHANGED <<instances, deleted, task, running, log, max_users, users, next_id, lock,
                   heap, pc, call, pre, ret>>

\* The caller goes on; the next use starts afresh.
TxnLeave ==
    /\ txn.pc = "done"
    /\ txn' = NoTxn
    /\ UNCHANGED <<instances, deleted, task, running, log, max_users, users, next_id, lock,
                   heap, pc, call, pre, ret>>

NextTxn ==
    \/ \E fails \in SUBSET DbCalls : TxnEnter(fails)
    \/ \E end \in BlockEnds : TxnBlock(end)
    \/ TxnCommit
    \/ TxnRollback
    \/ TxnClose
    \/ TxnLeave

SpecTxn == Init /\ [][NextTxn]_vars

\* ===========================================================================
\* The claims
\* ===========================================================================
\* A step in which client t's save of object o runs (sequential specification).
SaveStep(t, o) ==
    pc[t] = "idle" /\ pc'[t] = "done" /\ call'[t].op = "save" /\ call'[t].arg = o

\* Thread t has a finished call of operation op in hand.
Finished(t, op) == pc[t] = "done" /\ call[t].op = op

\* The positions of a thread inside "with self._lock:".
InLock == {"save_capacity", "save_assign", "save_validate", "save_store", "locked"}

\* C1: in every reachable state, whatever the interleaving of the threads'
\* save, delete, find_by_id, find_all and get_statistics calls, the number of
\* stored entries is at most max_users.
CapacityRespected == Count(users) <= max_users

\* C1 witness: the store is full and a save has been turned away for it.
CapacityReached ==
    /\ max_users >= 1
    /\ Count(users) = max_users
    /\ \E t \in Threads : Finished(t, "save") /\ ret[t].code = "CAPACITY_EXCEEDED"

\* C2: with exactly max_users entries stored, a save of a user whose identifier
\* is no key fails with RepositoryError CAPACITY_EXCEEDED; a save of a valid user
\* whose identifier is a key succeeds, overwrites that entry, returns the same
\* identifier and leaves the count (and every other entry) as it was.
SaveAtCapacity ==
    [][\A t \in Clients, o \in Objs :
         (SaveStep(t, o) /\ Count(users) = max_users) =>
            /\ heap[o].id \notin Keys(users) =>
                 /\ ret'[t].kind = "RepositoryError"
                 /\ ret'[t].code = "CAPACITY_EXCEEDED"
            /\ (heap[o].id \in Keys(users) /\ PostInitOk(heap[o].email, heap[o].age)) =>
                 /\ ret'[t] = Ok(heap[o].id)
                 /\ Keys(users') = Keys(users)
                 /\ users'[heap[o].id] = o
                 /\ \A k \in Keys(users) \ {heap[o].id} : users'[k] = users[k]
                 /\ Count(users') = Count(users)]_vars

\* C2 witness: a save has overwritten an entry of a full store: it returned
\* the identifier it was given, which is older than the last one issued.
OverwrittenAtCapacity ==
    \E t \in Threads :
        /\ Finished(t, "save") /\ ret[t].kind = "ok"
        /\ ret[t].val = call[t].id
        /\ ret[t].val < next_id - 1
        /\ users[ret[t].val] = call[t].arg
        /\ Count(users) = max_users

\* C3: a successful save of a user whose identifier is 0 or no key stores the
\* user under the counter's current value, returns it and advances the counter
\* by one; a successful save of a user whose identifier is a key keeps the
\* identifier and the counter.
SaveAssignsIdentifier ==
    [][\A t \in Clients, o \in Objs :
         (SaveStep(t, o) /\ ret'[t].kind = "ok") =>
            IF heap[o].id = 0 \/ heap[o].id \notin Keys(users)
            THEN /\ ret'[t].val = next_id
                 /\ next_id \in Keys(users') /\ users'[next_id] = o
                 /\ heap'[o].id = next_id
                 /\ next_id' = next_id + 1
            ELSE /\ ret'[t].val = heap[o].id
                 /\ users'[heap[o].id] = o
                 /\ heap'[o].id = heap[o].id
                 /\ next_id' = next_id]_vars

\* C3 witness: a user that came with a non-zero identifier unknown to the
\* store has been stored under another, the counter's.
UnknownIdentifierReplaced ==
    \E t \in Threads :
        /\ Finished(t, "save") /\ ret[t].kind = "ok"
        /\ call[t].id # 0 /\ ret[t].val # call[t].id
        /\ users[ret[t].val] = call[t].arg

\* C4: an identifier that delete has removed is never a key again, also when a
\* user still carrying it is saved; the counter never decreases, and every key
\* that enters the store is the counter's value, larger than every identifier
\* stored or deleted before.
DeletedNeverReused ==
    [][/\ deleted' \cap Keys(users') = {}
       /\ next_id' >= next_id
       /\ \A k \in Keys(users') \ Keys(users) :
            /\ k = next_id
            /\ next_id' = next_id + 1
            /\ \A j \in Keys(users) \cup deleted : j < k]_vars

\* C4 witness: a user carrying a deleted identifier has been saved again and
\* is stored under a new one.
SavedAgainAfterDelete ==
    \E t \in Threads :
        /\ Finished(t, "save") /\ ret[t].kind = "ok"
        /\ call[t].id \in deleted
        /\ ret[t].val > call[t].id
        /\ users[ret[t].val] = call[t].arg

\* C5: at most one thread is inside the locked body of a repository method, and
\* it holds the lock; from the moment save took the lock to its return the store
\* and the counter are as save found and made them: no other thread acted on
\* them in between.
MutualExclusion ==
    \A t \in Threads :
        pc[t] \in InLock =>
            /\ lock = t
            /\ \A s \in Threads \ {t} : pc[s] \notin InLock
            /\ users = pre[t].users
            /\ next_id = pre[t].next_id +
                 (IF pc[t] \in {"save_validate", "save_store"}
                     /\ (pre[t].u.id = 0 \/ pre[t].u.id \notin Keys(pre[t].users))
                  THEN 1 ELSE 0)

\* C5 witness: one thread is about to insert while another waits to save.
SaveHoldsLockWhileOtherWaits ==
    \E t, s \in Threads :
        /\ t # s
        /\ pc[t] = "save_store"
        /\ pc[s] = "waiting" /\ call[s].op = "save"

\* What the call thread t is in does when run alone on the store as t found it
\* on taking the lock.
Sequential(t) ==
    LET c == call[t]
        H0 == IF c.op = "save" THEN [heap EXCEPT ![c.arg] = pre[t].u] ELSE heap
    IN  CASE c.op = "save" ->
               LET r == save(pre[t].users, pre[t].next_id, H0, max_users, c.arg)
               IN [users |-> r.users, next_id |-> r.next_id, ret |-> r.ret,
                   u |-> r.heap[c.arg]]
          [] c.op = "delete" ->
               [users |-> delete(pre[t].users, c.id).users, next_id |-> pre[t].next_id,
                ret |-> delete(pre[t].users, c.id).ret, u |-> Unborn]
          [] c.op = "find_by_id" ->
               [users |-> pre[t].users, next_id |-> pre[t].next_id,
                ret |-> find_by_id(pre[t].users, c.id), u |-> Unborn]
          [] c.op = "find_all" ->
               [users |-> pre[t].users, next_id |-> pre[t].next_id,
                ret |-> find_all(pre[t].users), u |-> Unborn]
          [] OTHER ->
               [users |-> pre[t].users, next_id |-> pre[t].next_id,
                ret |-> get_statistics(pre[t].users, heap, max_users, pre[t].next_id),
                u |-> Unborn]

\* C6: every call takes effect as if it ran alone at the moment it held the
\* lock: when it returns, its result, the store, the counter and the user it was
\* given are those of the same call run sequentially on the store it found on
\* taking the lock.  The calls are thereby ordered by their taking of the lock,
\* which keeps each thread's own order.
Linearizable ==
    [][\A t \in Threads :
         (pc[t] \in InLock /\ pc'[t] = "done") =>
            /\ ret'[t] = Sequential(t).ret
            /\ users' = Sequential(t).users
            /\ next_id' = Sequential(t).next_id
            /\ call[t].op = "save" => heap'[call[t].arg] = Sequential(t).u]_vars

\* C6 witness: two threads have each finished a save that stored a user.
TwoThreadsSaved ==
    \E t, s \in Threads :
        /\ t # s
        /\ Finished(t, "save") /\ ret[t].kind = "ok"
        /\ Finished(s, "save") /\ ret[s].kind = "ok"
        /\ ret[t].val # ret[s].val

\* Some stored user has the email e, ignoring case.
EmailStored(e) == \E i \in Keys(users) : Lower(heap[users[i]].email) = Lower(e)

\* C7: between its duplicate scan and its save a request does not look at the
\* stored emails again: with requests on threads of their own, a request past
\* its scan is saved (given room in the store) also when another user with the
\* same email, ignoring case, has been stored meanwhile.
ScanNotAtomicWithSave ==
    [][\A k \in Tasks :
         (/\ task[k].pc = "constructed" /\ task'[k].pc = "done"
          /\ EmailStored(task[k].email)
          /\ Count(users) < max_users) =>
            /\ task'[k].ret = Ok(task[k].user)
            /\ users'[next_id] = task[k].user
            /\ Count(users') = Count(users) + 1]_vars

\* C7 witness: two stored users share one email, ignoring case.
TwoStoredUsersShareEmail ==
    \E i, j \in Keys(users) :
        i # j /\ Lower(heap[users[i]].email) = Lower(heap[users[j]].email)

\* C8: on one event loop (so also with the calls issued one after the other), a
\* create_user_async whose email equals, ignoring case, that of a stored user
\* fails with ValidationError DUPLICATE_EMAIL, the context naming the identifier
\* of a stored user with that email, and changes neither store nor counter.
DuplicateRejected ==
    [][\A k \in Tasks :
         (/\ task[k].pc = "sleeping" /\ task'[k].pc # "sleeping"
          /\ EmailStored(task[k].email)) =>
            /\ task'[k].pc = "done"
            /\ task'[k].ret.kind = "ValidationError"
            /\ task'[k].ret.code = "DUPLICATE_EMAIL"
            /\ \E i \in Keys(users) :
                 /\ Lower(heap[users[i]].email) = Lower(task[k].email)
                 /\ task'[k].ret.val.existing_user_id = i
            /\ users' = users /\ next_id' = next_id /\ heap' = heap]_vars

\* C8 witness: "A@B.CO" has been refused because of the stored "a@b.co".
UpperCaseDuplicateRefused ==
    \E k \in Tasks :
        /\ task[k].pc = "done" /\ task[k].ret.code = "DUPLICATE_EMAIL"
        /\ task[k].email = EmailUpper
        /\ task[k].ret.val.existing_user_id \in Keys(users)
        /\ heap[users[task[k].ret.val.existing_user_id]].email = EmailOk

\* C9: a create_user_async that returns normally returns the user it
\* constructed, with status ACTIVE and a non-zero identifier that is the one
\* save returned and the key under which that very object is stored.
CreatedUserIsStored ==
    [][\A k \in Tasks :
         (task[k].pc # "done" /\ task'[k].pc = "done" /\ task'[k].ret.kind = "ok") =>
            LET o == task'[k].ret.val
            IN /\ o = task[k].user
               /\ heap'[o].status = "ACTIVE"
               /\ heap'[o].id # 0
               /\ heap'[o].id = save(users, next_id, heap, max_users, o).ret.val
               /\ find_by_id(users', heap'[o].id) = Ok(o)]_vars

\* C9 witness: a second user has been created and returned.
SecondUserCreated ==
    \E k \in Tasks :
        /\ task[k].pc = "done" /\ task[k].ret.kind = "ok"
        /\ heap[task[k].ret.val].id = 2
        /\ users[2] = task[k].ret.val

\* C10: a save of a user whose email lacks "@" or "." or has at most 5
\* characters, or whose age is negative, fails with ValidationError when the
\* capacity check passes, and leaves every entry of the store as it was.
SaveRevalidates ==
    [][\A t \in Clients, o \in Objs :
         (/\ SaveStep(t, o)
          /\ \/ ~Contains(heap[o].email, "@")
             \/ ~Contains(heap[o].email, ".")
             \/ Len(heap[o].email) <= 5
             \/ (heap[o].age # <<>> /\ heap[o].age[1] < 0)
          /\ (Count(users) < max_users \/ heap[o].id \in Keys(users))) =>
            /\ ret'[t].kind = "ValidationError"
            /\ users' = users]_vars

\* C10 witness: a stored user was changed after construction and its save was
\* refused without touching the entry.
InvalidOverwriteRefused ==
    \E t \in Threads :
        /\ Finished(t, "save") /\ ret[t].kind = "ValidationError"
        /\ call[t].id \in Keys(users)
        /\ users[call[t].id] = call[t].arg
        /\ heap[call[t].arg].age = <<-1>>

\* What find_by_id, find_all and get_statistics read: the stored users, field
\* by field, under their keys.
StoredView == [k \in Keys(users) |-> heap[users[k]]]

\* C11: a change made to the list find_all returned (an element removed or
\* replaced, a field of a user in it assigned) leaves the stored state as it
\* was: the same users with the same fields under the same keys, hence the
\* same results of find_by_id, find_all and get_statistics.
SnapshotIndependent ==
    [][\A t \in Clients :
         (HoldsList(t) /\ HoldsList(t)') =>
            /\ StoredView' = StoredView
            /\ find_all(users') = find_all(users)
            /\ get_statistics(users', heap', max_users', next_id')
                  = get_statistics(users, heap, max_users, next_id)]_vars

\* A step in which client t's delete(id) / find_by_id(id) runs (sequential
\* specification).
DeleteStep(t, id) ==
    pc[t] = "idle" /\ pc'[t] = "done" /\ call'[t].op = "delete" /\ call'[t].id = id

FindStep(t, id) ==
    pc[t] = "idle" /\ pc'[t] = "done" /\ call'[t].op = "find_by_id" /\ call'[t].id = id

\* C12: delete(id) of an identifier that is a key of the store (saved and not
\* yet deleted) returns true, is the first delete of it, and removes that entry
\* and no other; delete(id) of an identifier deleted before returns false
\* whatever ran in between; delete of an identifier that is no key returns
\* false and changes neither the store, the counter nor any user.
DeleteOnce ==
    [][\A t \in Clients, id \in UserIds :
         DeleteStep(t, id) =>
            /\ IF id \in Keys(users)
               THEN /\ ret'[t] = Ok(TRUE)
                    /\ id \notin deleted
                    /\ Keys(users') = Keys(users) \ {id}
                    /\ \A k \in Keys(users') : users'[k] = users[k]
               ELSE /\ ret'[t] = Ok(FALSE)
                    /\ users' = users
            /\ id \in deleted => ret'[t] = Ok(FALSE)
            /\ next_id' = next_id /\ heap' = heap]_vars

\* C12 witness: an identifier that was deleted before is deleted again and the
\* call has returned false.
SecondDeleteRefused ==
    \E t \in Clients :
        /\ Finished(t, "delete") /\ ret[t] = Ok(FALSE)
        /\ call[t].id \in deleted

\* C13: find_by_id(id) returns the object the store holds under id when id is
\* a key, and that object is the one the last successful save under id stored
\* (a save's object is what find_by_id returns right after it, and only a save
\* replaces the object under a key); it returns None for an identifier the
\* counter has not issued and for a deleted one; it changes neither the
\* store, the counter nor any user.
FindByIdReturnsStored ==
    [][\A t \in Clients :
         /\ \A id \in UserIds :
               FindStep(t, id) =>
                  /\ id \in Keys(users) => ret'[t] = Ok(users[id])
                  /\ (id \notin 1..(next_id - 1) \/ id \in deleted) => ret'[t] = Ok(NoObj)
                  /\ users' = users /\ next_id' = next_id /\ heap' = heap
         /\ \A o \in Objs :
               (SaveStep(t, o) /\ ret'[t].kind = "ok") =>
                  find_by_id(users', ret'[t].val) = Ok(o)
         /\ \A k \in Keys(users) \cap Keys(users') :
               users'[k] # users[k] => SaveStep(t, users'[k])]_vars

\* C13 witness: find_by_id has returned the second object saved under an
\* identifier that an earlier object carries too.
FoundLastSaved ==
    \E t \in Clients :
        /\ Finished(t, "find_by_id") /\ ret[t] = Ok("u2")
        /\ heap["u1"].alive /\ heap["u1"].id = call[t].id

\* C15: a successful save of a user with identifier 0 returns the
\* next_available_id that get_statistics reports in the state the save
\* starts from.
NextAvailableIdIsIssued ==
    [][\A t \in Clients, o \in Objs :
         (SaveStep(t, o) /\ heap[o].id = 0 /\ ret'[t].kind = "ok") =>
            /\ get_statistics(users, heap, max_users, next_id).kind = "ok"
            /\ ret'[t].val
                  = get_statistics(users, heap, max_users, next_id).val.next_available_id]_vars

\* C15 witness: a save of a user with identifier 0 has returned 3 while the
\* store holds one user.
ThirdIdentifierIssued ==
    \E t \in Clients :
        /\ Finished(t, "save") /\ call[t].id = 0 /\ ret[t] = Ok(3)
        /\ Count(users) = 1

\* The sum of the values of the function f over the subset S of its domain.
RECURSIVE SumOver(_, _)
SumOver(f, S) ==
    IF S = {} THEN 0
    ELSE LET k == CHOOSE x \in S : TRUE IN f[k] + SumOver(f, S \ {k})

\* C14: for any stored population get_statistics returns a report in which
\* adult_users + minor_users = total_users; adult_users is the number of
\* stored users whose age is known and at least 18 (a user of unknown age is
\* a minor); average_age is 0 when no stored user has a known age and
\* otherwise the sum of the known ages over the number of users with a known
\* age.
StatisticsCount ==
    \A t \in Clients :
        Finished(t, "get_statistics") =>
            /\ ret[t].kind = "ok"
            /\ LET s == ret[t].val
                   known == {k \in Keys(users) : heap[users[k]].age # <<>>}
                   adults == {k \in known : heap[users[k]].age[1] >= 18}
                   ageOf == [k \in known |-> heap[users[k]].age[1]]
               IN /\ s.total_users = Count(users)
                  /\ s.adult_users + s.minor_users = s.total_users
                  /\ s.adult_users = Cardinality(adults)
                  /\ IF known = {}
                     THEN s.average_age = [num |-> 0, den |-> 1]
                     ELSE s.average_age = [num |-> SumOver(ageOf, known),
                                           den |-> Cardinality(known)]

\* The entries get_statistics and _calculate_basic_statistics both compute.
SharedStatistics ==
    {"total_users", "status_distribution", "adult_users", "minor_users", "average_age"}

\* C20: get_user_statistics returns the repository's get_statistics when the
\* repository has one and the local reduction of find_all() otherwise; on
\* every population the local reduction and the repository's statistics have
\* the same total_users, status_distribution, adult_users, minor_users and
\* average_age; either way the result carries the service's uptime.
StatisticsAgree ==
    \A t \in Clients :
        (Finished(t, "get_user_statistics") \/ Finished(t, "get_user_statistics_basic")) =>
            LET own == get_statistics(users, heap, max_users, next_id)
                local == calculate_basic_statistics(find_all(users).val, heap)
            IN /\ ret[t].kind = "ok"
               /\ own.kind = "ok"
               /\ "service_uptime_seconds" \in DOMAIN ret[t].val
               /\ \A f \in SharedStatistics : own.val[f] = local[f]
               /\ IF Finished(t, "get_user_statistics")
                  THEN \A f \in DOMAIN own.val : ret[t].val[f] = own.val[f]
                  ELSE \A f \in DOMAIN local : ret[t].val[f] = local[f]

BatchIsolatesFailures ==
    /\ <>(\E t \in Clients :
            /\ Finished(t, "gather") /\ ret[t].kind = "ok"
            /\ \A k \in Tasks : ret[t].val[k] = task[k].ret /\ task[k].pc = "done")
    /\ [](\A k \in Tasks :
            task[k].pc = "done" =>
               IF task[k].ret.kind = "ok"
               THEN \E i \in Keys(users) : users[i] = task[k].ret.val
               ELSE \/ ~PostInitOk(task[k].email, task[k].age)
                    \/ EmailStored(task[k].email)
                    \/ Count(users) >= max_users)

\* C17 witness: main has the results of the batch: the first request failed
\* on its own arguments and the second one's user is stored.
SiblingOfFailureStored ==
    \E t \in Clients :
        /\ Finished(t, "gather") /\ ret[t].kind = "ok"
        /\ ret[t].val["r1"].kind = "ValueError"
        /\ ret[t].val["r2"].kind = "ok"
        /\ \E i \in Keys(users) : users[i] = ret[t].val["r2"].val

\* The error kinds derived from ApplicationError (lines 337-352).
ApplicationErrors == {"RepositoryError", "ValidationError"}

\* C18: every failure of save and of create_user_async is a RepositoryError
\* or a ValidationError and carries an error code and a context; so does, in
\* particular, the failure of create_user_async called with a malformed
\* email or a negative age.
FailuresAreApplicationErrors ==
    /\ \A t \in Threads :
          (Finished(t, "save") /\ ret[t].kind # "ok") =>
             ret[t].kind \in ApplicationErrors /\ ret[t].code # ""
    /\ \A k \in Tasks :
          Failed(k) => task[k].ret.kind \in ApplicationErrors /\ task[k].ret.code # ""

\* The number of ERROR entries among the log entries L.
Errors(L) == Cardinality({i \in DOMAIN L : L[i] = "ERROR"})

\* C19: when the save called by create_user_async fails, the request logs
\* one ERROR entry (its only one), ends with the very error save raised
\* (kind, code and context), and save has run once: store and counter are as
\* that one call left them.
SaveFailureLoggedAndReraised ==
    [][\A k \in Tasks :
         (/\ task[k].pc = "constructed" /\ task'[k].pc = "done"
          /\ save(users, next_id, heap, max_users, task[k].user).ret.kind # "ok") =>
            LET r == save(users, next_id, heap, max_users, task[k].user)
            IN /\ task'[k].ret = r.ret
               /\ log'[k] = Append(log[k], "ERROR")
               /\ Errors(log'[k]) = 1
               /\ users' = r.users /\ next_id' = r.next_id]_vars

\* C19 witness: a request has ended with the capacity error of save after
\* logging its entry and one error.
CapacityErrorPropagated ==
    \E k \in Tasks :
        /\ Failed(k) /\ task[k].ret = CapacityError(users, max_users)
        /\ log[k] = <<"INFO", "ERROR">>

\* The fields of a User other than its status.
OtherFields ==
    {"alive", "id", "name", "email", "age", "preferences", "created_at", "metadata"}

\* C21: for every current status and every new status s of the four (s the
\* current one included), update_status(s) returns normally, leaves the
\* user's status at s and the user's identifier, name, email, age,
\* preferences, creation time and metadata as they were; no other user
\* changes.
AnyStatusTransition ==
    [][\A t \in Clients, o \in Objs, s \in Statuses :
         (/\ pc[t] = "idle" /\ pc'[t] = "done"
          /\ call'[t].op = "update_status" /\ call'[t].arg = o /\ call'[t].status = s) =>
            /\ ret'[t] = Ok(NoObj)
            /\ heap'[o].status = s
            /\ \A f \in OtherFields : heap'[o][f] = heap[o][f]
            /\ \A x \in Objs \ {o} : heap'[x] = heap[x]]_vars

\* C21 witness: a suspended user has been made active again.
SuspendedMadeActive ==
    \E t \in Clients :
        /\ Finished(t, "update_status") /\ call[t].status = "ACTIVE"
        /\ heap[call[t].arg].status = "ACTIVE"
        /\ heap[call[t].arg].name = "Ann" /\ heap[call[t].arg].created_at = 1
        /\ \E x \in Objs \ {call[t].arg} : heap[x].status = "SUSPENDED"

\* C22: every call of do_something, on any object and after any number of
\* earlier calls, returns "Foo did something successfully" on a Foo, "Bar
\* performed its action" on a Bar and "Baz executed its method" on a Baz, and
\* changes no object's class and no other caller's result.
DoSomethingConstant ==
    [][\A t \in Threads, i \in Insts :
         (/\ pc[t] = "idle" /\ pc'[t] = "done"
          /\ call'[t].op = "do_something" /\ call'[t].arg = i) =>
            /\ ret'[t].kind = "ok"
            /\ instances[i].cls = "Foo" => ret'[t].val = "Foo did something successfully"
            /\ instances[i].cls = "Bar" => ret'[t].val = "Bar performed its action"
            /\ instances[i].cls = "Baz" => ret'[t].val = "Baz executed its method"
            /\ \A j \in Insts : instances'[j].cls = instances[j].cls
            /\ \A u \in Threads \ {t} : ret'[u] = ret[u]]_vars

\* C22 witness: the second call on a Baz has returned its string while the
\* other thread holds the result of a call on a Foo.
SecondCallOnBaz ==
    \E t \in Threads, u \in Threads :
        /\ Finished(t, "do_something") /\ instances[call[t].arg].cls = "Baz"
        /\ instances[call[t].arg].calls >= 2
        /\ ret[t].val = "Baz executed its method"
        /\ Finished(u, "do_something") /\ ret[u].val = "Foo did something successfully"

\* How often the call c was made in the use of database_transaction.
Made(c) == Cardinality({i \in DOMAIN txn.events : txn.events[i] = c})

\* The use of database_transaction has ended and had got its cursor.
TxnEnded == txn.pc = "done" /\ "cursor" \notin txn.fails

\* C23: a use of database_transaction makes exactly one of commit and
\* rollback: commit and no rollback if the block completed normally; rollback,
\* no commit and the block's own error re-raised if the block raised; either
\* way the cursor is closed once, as the last call.
CommitXorRollback ==
    TxnEnded =>
        /\ Made("commit") + Made("rollback") = 1
        /\ txn.body = "ok" => Made("commit") = 1 /\ Made("rollback") = 0
        /\ txn.body # "ok" =>
              /\ Made("rollback") = 1 /\ Made("commit") = 0
              /\ txn.ret = Raise(txn.body, "", <<>>)
        /\ Made("close") = 1 /\ txn.events[Len(txn.events)] = "close"

\* C23 as amended: a use makes at most one commit and at most one rollback.
\* If the block completed normally it commits, and rolls back only if that
\* commit raised.  If the block raised an Exception it rolls back, does not
\* commit, and re-raises the block's error unless rollback or close raised.
\* If the block raised a BaseException that is no Exception it neither
\* commits nor rolls back and that error goes on unless close raised.  Either
\* way the cursor is closed once, as the last call.
CommitOrRollbackByOutcome ==
    TxnEnded =>
        /\ Made("commit") <= 1 /\ Made("rollback") <= 1
        /\ txn.body = "ok" =>
              /\ Made("commit") = 1
              /\ Made("rollback") = (IF "commit" \in txn.fails THEN 1 ELSE 0)
              /\ txn.fails \cap {"commit", "close"} = {} => txn.ret = Ok(NoObj)
        /\ (txn.body # "ok" /\ IsException(txn.body)) =>
              /\ Made("rollback") = 1 /\ Made("commit") = 0
              /\ txn.fails \cap {"rollback", "close"} = {} =>
                    txn.ret = Raise(txn.body, "", <<>>)
        /\ (txn.body # "ok" /\ ~IsException(txn.body)) =>
              /\ Made("rollback") = 0 /\ Made("commit") = 0
              /\ "close" \notin txn.fails => txn.ret = Raise(txn.body, "", <<>>)
        /\ Made("close") = 1 /\ txn.events[Len(txn.events)] = "close"

\* C23 witness: the block raised ValueError; the use rolled back, closed the
\* cursor and ended with that ValueError.
RolledBackAndReraised ==
    /\ TxnEnded /\ txn.body = "ValueError"
    /\ txn.events = <<"rollback", "close">>
    /\ txn.ret = Raise("ValueError", "", <<>>)

\* C24: with every create_user_async a coroutine of one event loop and no
\* other way into the store, no two stored users have emails equal ignoring
\* case, and a request that has scanned and not yet ended is the one the
\* event loop is running (no other request scans or saves meanwhile).
OneLoopNoDuplicates ==
    /\ \A i \in Keys(users), j \in Keys(users) :
          i # j => Lower(heap[users[i]].email) # Lower(heap[users[j]].email)
    /\ \A k \in Tasks : task[k].pc \in {"scanned", "constructed"} => running = k

\* C24 witness: two requests with valid emails equal ignoring case have both
\* ended, in a repository with room for two, and one user is stored.
OneOfTwoEqualEmailsStored ==
    \E k \in Tasks, j \in Tasks :
        /\ k # j /\ task[k].pc = "done" /\ task[j].pc = "done"
        /\ task[k].email # task[j].email
        /\ Lower(task[k].email) = Lower(task[j].email)
        /\ task[k].ret.kind = "ok" /\ task[j].ret.code = "DUPLICATE_EMAIL"
        /\ max_users >= 2 /\ Count(users) = 1

\* C25: a save that is rejected, by the capacity test or by the validation,
\* leaves the stored mapping, the next-identifier counter and the identifier
\* of the passed user as they were before the call.
RejectedSaveChangesNothing ==
    [][\A t \in Clients, o \in Objs :
          (SaveStep(t, o) /\ ret'[t].kind # "ok") =>
              /\ users' = users
              /\ next_id' = next_id
              /\ heap'[o].id = heap[o].id]_vars

\* Thread t leaves the lock with the identifier of a save that allocated one:
\* the user came with identifier 0 or with one that was no key.
FreshSaveReturns(t) ==
    /\ pc[t] \in InLock /\ pc'[t] = "done" /\ call[t].op = "save"
    /\ ret'[t].kind = "ok"
    /\ NeedsNewId(pre[t].users, pre[t].u.id)

\* C26: in every state the next-identifier counter is at least 1 and greater
\* than every key of the store, and 0 is no key.  The counter never goes
\* down; a save that allocated an identifier returns the counter's value at
\* the time it took the lock, and the counter is above it from then on, so
\* the identifiers so returned are pairwise distinct, whichever threads the
\* saves ran on; two threads holding the identifiers of saves of two
\* different users that came with identifier 0 hold different ones.
FreshIdentifiersDistinct ==
    /\ [](/\ next_id >= 1
          /\ 0 \notin Keys(users)
          /\ \A k \in Keys(users) : k < next_id
          /\ \A t \in Threads, u \in Threads :
                (/\ t # u /\ call[t].arg # call[u].arg
                 /\ Finished(t, "save") /\ ret[t].kind = "ok" /\ call[t].id = 0
                 /\ Finished(u, "save") /\ ret[u].kind = "ok" /\ call[u].id = 0) =>
                    ret[t].val # ret[u].val)
    /\ [][/\ next_id' >= next_id
          /\ \A t \in Threads :
                FreshSaveReturns(t) =>
                    /\ ret'[t].val = pre[t].next_id
                    /\ ret'[t].val >= 1
                    /\ ret'[t].val < next_id']_vars

\* C26 witness: two threads hold the identifiers 1 and 2 of saves of users
\* that came with identifier 0, and the counter stands at 3.
TwoThreadsHoldFreshIdentifiers ==
    \E t \in Threads, u \in Threads :
        /\ Finished(t, "save") /\ call[t].id = 0 /\ ret[t] = Ok(1)
        /\ Finished(u, "save") /\ call[u].id = 0 /\ ret[u] = Ok(2)
        /\ next_id = 3 /\ Keys(users) = {1, 2}

\* C27: get_statistics returns a result, and raises nothing, in every state
\* of the repository and for every capacity from 0 up, the repository of
\* capacity 0 with its empty store included.
GetStatisticsNeverRaises ==
    \A t \in Clients : Finished(t, "get_statistics") => ret[t].kind = "ok"

\* C28: the lock is held only by a thread inside a with block, so every way
\* out of every operation, the capacity-error and validation-error exits of
\* save included, releases it; whenever some thread is inside a call some
\* thread inside a call can take a step (no deadlock); and under fair
\* scheduling every call that has been started ends, by return or by raise.
EveryCallEnds ==
    /\ [](/\ lock # NoThread => pc[lock] \in InLock
          /\ \A t \in Threads : pc[t] \in InLock => lock = t
          /\ (\E t \in Threads : pc[t] \notin {"idle", "done"}) =>
                ENABLED (\E t \in Threads : Acquire(t) \/ Body(t)))
    /\ \A t \in Threads : (pc[t] = "waiting") ~> (pc[t] = "done")

\* C28 witness: one thread's save was refused by the validation after it
\* had taken identifier 1; the other thread's save took the lock after it,
\* took identifier 2 and was refused too; the lock is free.
SaveAfterFailedSave ==
    \E t \in Threads, u \in Threads :
        /\ Finished(t, "save") /\ ret[t].code = "INVALID_USER_DATA"
        /\ ret[t].val.user_data.id = 1
        /\ Finished(u, "save") /\ ret[u].code = "INVALID_USER_DATA"
        /\ ret[u].val.user_data.id = 2
        /\ lock = NoThread

\* Request k takes a step of create_user_async from its duplicate scan on.
CreateStep(k) ==
    task[k].pc \in {"sleeping", "scanned", "constructed"} /\ task'[k] # task[k]

\* C29: from its duplicate scan on, a create_user_async call that does not end
\* with a stored user changes nothing in the repository: at each of its steps,
\* the failing one included (duplicate email, malformed email, negative age,
\* repository at capacity), the store has the same keys and the same users
\* with the same fields and the next-identifier counter is the same; and
\* between its scan and its end no step is another request's, so at its
\* failure the repository is as it was when it scanned.
FailedCreateChangesNothing ==
    [][\A k \in Tasks :
          /\ (CreateStep(k) /\ ~(task'[k].pc = "done" /\ task'[k].ret.kind = "ok")) =>
                /\ users' = users
                /\ next_id' = next_id
                /\ \A i \in Keys(users) : heap'[users[i]] = heap[users[i]]
          /\ task[k].pc \in {"scanned", "constructed"} => task'[k] # task[k]]_vars

\* C29 witness: with one user stored, requests have failed for a duplicate
\* email and for a full repository, and the counter stands where the one
\* successful save left it.
CreateFailedTwoWays ==
    \E k \in Tasks, j \in Tasks :
        /\ Failed(k) /\ task[k].ret.code = "CAPACITY_EXCEEDED"
        /\ Failed(j) /\ task[j].ret.code = "DUPLICATE_EMAIL"
        /\ max_users = 1 /\ Keys(users) = {1} /\ next_id = 2

====
